---------------------------- MODULE Spec2Model ----------------------------
(* Verification model of the ERCOT RAG assistant (vinayk94/iso_assist):     *)
(* the citation extractor, the source aggregation step, the vector search,  *)
(* the /api/query request handler, and of the front end the Home page, the  *)
(* answer segmentation, the duplicate-word cleanup, formatAnswerContent,    *)
(* the links of processCitations to the SourceList, and the Toast.          *)
(*                                                                          *)
(* A text is a sequence of one-character strings.  Offsets are 0-based and  *)
(* end-exclusive, as in Python's match.start()/match.end() and in           *)
(* JavaScript's String.prototype.slice.                                     *)
EXTENDS Integers, Sequences, FiniteSets

VARIABLES
    \* ---- citation extraction (extract_citations) ----
    ex_pc,          \* "input" before the call, "done" after it
    raw_text,       \* the generator's answer handed to extract_citations
    src_titles,     \* titles of the sources of the same response
    clean_text,     \* modified_text as left by extract_citations
    citations,      \* the Citation list built by extract_citations
    \* ---- source aggregation (deduplicate_sources) ----
    ag_pc,          \* "input" before the call, "done" after it
    candidates,     \* the retrieved chunks handed to the aggregation step
    unique_sources, \* the list it returns
    \* ---- POST /api/query (process_query), one entry per concurrent call ----
    instance,       \* the process-wide assistant: "none" until first created
    rq_pc,          \* where each call stands
    rq_query,       \* request.query of each call
    rq_raw,         \* the text the generation backend returned to each call
    rq_result,      \* result, the value of assistant.process_query(...)
    rq_resp,        \* the response each call returns
    rq_concurrent,  \* whether another call was in flight during this one
    rq_cited,       \* per marker of rq_raw, the document the generator drew on
    \* ---- the Home page (page.tsx) with QueryInput and ErrorMessage ----
    isLoading,      \* useState(false)
    response,       \* useState<RAGResponse | null>(null)
    error,          \* useState<string | null>(null)
    currentQuery,   \* useState<string>('')
    input_query,    \* QueryInput's own state: the text in the input box
    pending,        \* the fetch calls not yet handled, oldest first
    last_submitted, \* the query string most recently submitted by the user
    last_event,     \* the user event since the last handled call, if any
    last_outcome,   \* how the last handled call ended: "none", "ok", "failed"
    last_cause,     \* what had failed on the server in the last handled call
    \* ---- duplicate-word cleanup (cleanExcerpt, cleanText) ----
    cl_pc,          \* "input", then "once" and "twice" as the cleanup is applied
    excerpt,        \* the text handed to the cleanup
    cleaned,        \* the results of the successive applications
    \* ---- retrieval (vector_search) against an unchanged index ----
    rt_pc,          \* "ready", then "first" and "second" as searches return
    embeddings,     \* the embeddings table: chunk_id and distance to the query
    rt_k,           \* the LIMIT of the search
    retrieved,      \* the row lists the successive searches returned
    \* ---- AnswerDisplay's segmentation of an answer ----
    sg_pc,          \* "input" before the component renders, "done" after
    sg_answer,      \* the answer prop
    sg_citations,   \* the citations prop
    sg_segments,    \* the segments array it builds
    \* ---- a generated answer on its way to the screen ----
    dp_pc,          \* "generated", then "captured", then "shown"
    dp_text,        \* the text handed to extract_citations
    dp_answer,      \* the answer of the response
    dp_citations,   \* the citations of the response
    dp_shown,       \* the string AnswerDisplay slices or puts on the page
    dp_segments,    \* the segments cut out of it, if the component cuts any
    \* ---- FormattedAnswer and SourceList given one sources list ----
    lk_done,        \* which of the two components have rendered
    lk_html,        \* the cite elements of the content, in order
    lk_sources,     \* the sources prop: metadata.document_id of each source
    lk_out,         \* what processCitations put in place of each cite element
    lk_ids,         \* the element ids SourceList rendered
    \* ---- one Toast ----
    to_mounted,     \* "off", or whether the component is mounted
    to_props,       \* type, duration and whether onClose was given
    isVisible,      \* useState(true)
    to_timer,       \* the timeout of the effect: armed or not, time left
    to_effects,     \* how many times the effect has run
    to_clicked,     \* whether the close button was clicked
    onCloseCalls    \* how many times onClose was invoked

exVars == <<ex_pc, raw_text, src_titles, clean_text, citations>>

agVars == <<ag_pc, candidates, unique_sources>>

srvVars == <<instance, rq_pc, rq_query, rq_raw, rq_result, rq_resp, rq_concurrent,
             rq_cited>>

homeVars == <<isLoading, response, error, currentQuery, input_query, pending,
              last_submitted, last_event, last_outcome, last_cause>>

clVars == <<cl_pc, excerpt, cleaned>>

rtVars == <<rt_pc, embeddings, rt_k, retrieved>>

sgVars == <<sg_pc, sg_answer, sg_citations, sg_segments>>

dpVars == <<dp_pc, dp_text, dp_answer, dp_citations, dp_shown, dp_segments>>

lkVars == <<lk_done, lk_html, lk_sources, lk_out, lk_ids>>

toVars == <<to_mounted, to_props, isVisible, to_timer, to_effects, to_clicked,
            onCloseCalls>>

vars == <<exVars, agVars, srvVars, homeVars, clVars, rtVars, sgVars, dpVars, lkVars, toVars>>

-----------------------------------------------------------------------------
(* Bounds of the model.                                                     *)

MaxTextLen == 5

MaxCands == 3

MaxQueryLen == 2

MaxExcerptLen == 5

MaxK == 2

MaxAnswerLen == 3

MaxCits == 2

\* The longest duration of a Toast, in ticks of the clock
MaxDuration == 2

\* The number of onClose invocations after which a Toast is left alone
MaxCalls == 3

\* The number of times the effect of a Toast runs at most
MaxEffects == 3

-----------------------------------------------------------------------------
(* Texts.                                                                   *)

NL == "\n"

Chars == {"[", "]", "a", "b", NL}

Texts == UNION {[1..n -> Chars] : n \in 0..MaxTextLen}

Titles == {<<"a">>, <<"b">>}

\* s[a:b] of Python, s.slice(a, b) of JavaScript, for 0 <= a <= b <= len(s)
Slice(s, a, b) == SubSeq(s, a + 1, b)

-----------------------------------------------------------------------------
(* extract_citations: re.finditer(r'\[(.*?)\]', text).                      *)

\* The lazy group (.*?) followed by \]: from position j on, the first "]"
\* that is reached without crossing a newline ("." matches no newline).
\* Positions are 1-based here; 0 means the pattern does not match.
RECURSIVE ScanClose(_, _)
ScanClose(text, j) ==
    IF j > Len(text) THEN 0
    ELSE IF text[j] = "]" THEN j
    ELSE IF text[j] = NL THEN 0
    ELSE ScanClose(text, j + 1)

\* A variant that lets the marker end at the end of the line when the
\* closing bracket is missing.
RECURSIVE ScanCloseOrEnd(_, _)
ScanCloseOrEnd(text, j) ==
    IF j > Len(text) THEN Len(text)
    ELSE IF text[j] = "]" THEN j
    ELSE IF text[j] = NL THEN j - 1
    ELSE ScanCloseOrEnd(text, j + 1)

\* A variant of MatchAt that accepts an unclosed marker.
MatchAtUnclosed(text, i) ==
    IF text[i] = "[" THEN ScanCloseOrEnd(text, i + 1) ELSE 0

\* The pattern tried at position i: the position of the closing bracket, or 0.
MatchAt(text, i) ==
    IF text[i] = "[" THEN ScanClose(text, i + 1) ELSE 0

\* One match object: start() and end() are 0-based, end() exclusive;
\* group is match.group(1).
Match(text, i, j) ==
    [start |-> i - 1, end |-> j, group |-> SubSeq(text, i + 1, j - 1)]

\* A variant that resumes the search one character after the start of the
\* previous match instead of after its end (overlapping matches).
RECURSIVE FindIterOverlapping(_, _)
FindIterOverlapping(text, p) ==
    IF p > Len(text) THEN <<>>
    ELSE LET j == MatchAt(text, p) IN
         IF j # 0 THEN <<Match(text, p, j)>> \o FindIterOverlapping(text, p + 1)
         ELSE FindIterOverlapping(text, p + 1)

\* re.finditer: the non-overlapping matches from position p on, leftmost first.
RECURSIVE FindIter(_, _)
FindIter(text, p) ==
    IF p > Len(text) THEN <<>>
    ELSE LET j == MatchAt(text, p) IN
         IF j # 0 THEN <<Match(text, p, j)>> \o FindIter(text, j + 1)
         ELSE FindIter(text, p + 1)

\* A variant that records the span of the captured group instead of the
\* span of the whole match.
CitationOfGroup(m, offset) ==
    [title |-> m.group,
     start_idx |-> (m.start + 1) - offset,
     end_idx |-> (m.end - 1) - offset]

\* The body of the loop: Citation(title=source, start_idx=start, end_idx=end)
Citation(m, offset) ==
    [title |-> m.group,
     start_idx |-> m.start - offset,
     end_idx |-> m.end - offset]

\* A variant of the loop that moves offset on by the two brackets of each
\* match, as if the markers were replaced by their titles.
RECURSIVE ExtractLoopShifting(_, _)
ExtractLoopShifting(matches, offset) ==
    IF matches = <<>> THEN <<>>
    ELSE <<Citation(Head(matches), offset)>>
             \o ExtractLoopShifting(Tail(matches), offset + 2)

\* for match in matches: ... citations.append(...)
\* offset is set to 0 before the loop and no statement of the loop changes it.
RECURSIVE ExtractLoop(_, _)
ExtractLoop(matches, offset) ==
    IF matches = <<>> THEN <<>>
    ELSE <<Citation(Head(matches), offset)>> \o ExtractLoop(Tail(matches), offset)

\* extract_citations(text): modified_text = text, offset = 0, one Citation
\* per match.  The function takes no source list.
extract_citations(text) ==
    [text |-> text, citations |-> ExtractLoop(FindIter(text, 1), 0)]

\* CitationMarker renders a citation as [{title}]
RenderedTitle(title) == <<"[">> \o title \o <<"]">>

-----------------------------------------------------------------------------
(* AnswerDisplay: the answer cut into text and citation segments.           *)

\* [...citations].sort((a, b) => a.start_idx - b.start_idx): a stable sort;
\* c is put behind the entries that do not start after it
RECURSIVE InsertByStart(_, _)
InsertByStart(sorted, c) ==
    IF sorted = <<>> THEN <<c>>
    ELSE IF c.start_idx < sorted[Len(sorted)].start_idx
         THEN Append(InsertByStart(SubSeq(sorted, 1, Len(sorted) - 1), c),
                     sorted[Len(sorted)])
         ELSE Append(sorted, c)

\* A variant that takes the citations in the order given
KeepOrder(cits) == cits

RECURSIVE SortByStart(_)
SortByStart(cits) ==
    IF cits = <<>> THEN <<>>
    ELSE InsertByStart(SortByStart(SubSeq(cits, 1, Len(cits) - 1)), cits[Len(cits)])

\* sources.find(s => s.title === citation.title)
FindSource(sources, title) ==
    IF \E n \in 1..Len(sources) : sources[n].title = title
    THEN LET n == CHOOSE x \in 1..Len(sources) :
                      /\ sources[x].title = title
                      /\ \A y \in 1..(x - 1) : sources[y].title # title
         IN [found |-> TRUE, index |-> n]
    ELSE [found |-> FALSE, index |-> 0]

\* A variant that shows each source once: a citation whose title already has
\* a segment adds none.
PushCitationOnce(segments, citation, sources) ==
    IF \E n \in 1..Len(segments) :
           segments[n].type = "citation" /\ segments[n].content = citation.title
    THEN segments
    ELSE Append(segments, [type |-> "citation", content |-> citation.title,
                           source |-> FindSource(sources, citation.title)])

\* segments.push({type: 'citation', content: citation.title, source})
PushCitation(segments, citation, sources) ==
    Append(segments, [type |-> "citation", content |-> citation.title,
                      source |-> FindSource(sources, citation.title)])

\* if (citation.start_idx > lastIndex) segments.push({type: 'text',
\*     content: answer.slice(lastIndex, citation.start_idx)})
\* lo and hi record the two arguments of slice next to the content.
PushTextBefore(segments, answer, lastIndex, citation) ==
    IF citation.start_idx > lastIndex
    THEN Append(segments, [type |-> "text",
                           content |-> Slice(answer, lastIndex, citation.start_idx),
                           source |-> [found |-> FALSE, index |-> 0],
                           lo |-> lastIndex, hi |-> citation.start_idx])
    ELSE segments

\* sortedCitations.forEach(citation => { ...; lastIndex = citation.end_idx })
\* and, after the loop, the remaining text
RECURSIVE SegmentLoop(_, _, _, _, _)
SegmentLoop(answer, cits, sources, segments, lastIndex) ==
    IF cits = <<>>
    THEN IF lastIndex < Len(answer)
         THEN Append(segments, [type |-> "text",
                                content |-> Slice(answer, lastIndex, Len(answer)),
                                source |-> [found |-> FALSE, index |-> 0],
                                lo |-> lastIndex, hi |-> Len(answer)])
         ELSE segments
    ELSE LET citation == Head(cits) IN
         SegmentLoop(answer, Tail(cits), sources,
                     PushCitation(PushTextBefore(segments, answer, lastIndex, citation),
                                  citation, sources),
                     citation.end_idx)

\* The segments AnswerDisplay renders for a response
AnswerSegments(answer, cits, sources) ==
    SegmentLoop(answer, SortByStart(cits), sources, <<>>, 0)

-----------------------------------------------------------------------------
(* The store, and the source aggregation step.                              *)

\* chunks.document_id: the document each chunk belongs to
ChunkDoc == [c \in 1..4 |-> IF c <= 2 THEN 1 ELSE c - 1]

\* documents.title: titles are not unique, documents 1 and 2 share one
DocTitle == [d \in 1..3 |-> IF d <= 2 THEN <<"a">> ELSE <<"b">>]

\* Cosine distances e.embedding <=> query, in hundredths (0 .. 200)
Distances == {10, 40, 120}

\* One row of vector_search: c.id, c.document_id, d.title, distance
Chunk(c, dist) ==
    [id |-> c,
     metadata |-> [document_id |-> ChunkDoc[c], title |-> DocTitle[ChunkDoc[c]]],
     distance |-> dist]

ChunkRows == {Chunk(c, dist) : c \in DOMAIN ChunkDoc, dist \in Distances}

\* Lists of at most MaxCands rows, no chunk twice
CandidateLists ==
    {l \in UNION {[1..n -> ChunkRows] : n \in 0..MaxCands} :
        \A i \in 1..Len(l) : \A j \in 1..Len(l) : l[i].id = l[j].id => i = j}

\* The key under which a chunk is filed in unique_sources
SourceKeyByTitle(chunk) == chunk.metadata.title

\* doc_id = chunk['metadata']['document_id']
SourceKey(chunk) == chunk.metadata.document_id

\* for chunk in chunks: if doc_id not in unique_sources:
\*     unique_sources[doc_id] = chunk
\* acc holds the dict's values in insertion order; the else branch is a
\* comment and changes nothing.
RECURSIVE DedupLoop(_, _)
DedupLoop(chunks, acc) ==
    IF chunks = <<>> THEN acc
    ELSE LET chunk == Head(chunks) IN
         IF \E k \in 1..Len(acc) : SourceKey(acc[k]) = SourceKey(chunk)
         THEN DedupLoop(Tail(chunks), acc)
         ELSE DedupLoop(Tail(chunks), Append(acc, chunk))

deduplicate_sources(chunks) == DedupLoop(chunks, <<>>)

\* A chunk id that embeddings may still hold after the chunk is gone
DanglingChunk == 5

\* One row of the embeddings table, with the distance of its vector to the
\* query vector
EmbeddingRow(c, dist) == [chunk_id |-> c, distance |-> dist]

\* The embeddings tables of at most MaxCands rows, one row per chunk id
\* (CONSTRAINT unique_chunk_embedding)
EmbeddingTables ==
    {t \in SUBSET {EmbeddingRow(c, dist) :
                      c \in {1, 2, 3, DanglingChunk}, dist \in Distances} :
        /\ Cardinality(t) <= MaxCands
        /\ \A x \in t : \A y \in t : x.chunk_id = y.chunk_id => x = y}

\* FROM chunks c JOIN documents d ON ... JOIN embeddings e ON c.id = e.chunk_id:
\* an embedding whose chunk is not in the chunks table joins with nothing
JoinRows(t) ==
    {Chunk(e.chunk_id, e.distance) : e \in {x \in t : x.chunk_id \in DOMAIN ChunkDoc}}

\* ORDER BY e.embedding <=> %s::vector: the rows by distance ascending; the
\* statement names no second sort key, so rows at the same distance may come
\* in any order
OrderByDistance(rows) ==
    {s \in [1..Cardinality(rows) -> rows] :
        /\ \A i \in DOMAIN s : \A j \in DOMAIN s : s[i] = s[j] => i = j
        /\ \A i \in DOMAIN s : \A j \in DOMAIN s :
               i < j => s[i].distance <= s[j].distance}

\* LIMIT %s
Limit(s, k) == SubSeq(s, 1, IF k < Len(s) THEN k ELSE Len(s))

\* The row lists the statement of vector_search may return
VectorSearchOutcomes(t, k) == {Limit(s, k) : s \in OrderByDistance(JoinRows(t))}

-----------------------------------------------------------------------------
(* The /api/query endpoint.                                                 *)

Requests == {1, 2}

Queries == {"q1", "q2", "q3"}

None == [none |-> TRUE]

\* async def vector_search(self, query: str, k: int = 5)
DefaultK == 5

\* The embeddings each query is close to, in an order ORDER BY may give
\* them; chunk DanglingChunk is no longer in the chunks table
EmbeddingIndex ==
    [q \in Queries |->
        IF q = "q1"
        THEN <<EmbeddingRow(1, 10), EmbeddingRow(DanglingChunk, 10),
               EmbeddingRow(3, 40), EmbeddingRow(2, 40)>>
        ELSE IF q = "q2" THEN <<EmbeddingRow(4, 10)>>
        ELSE <<EmbeddingRow(DanglingChunk, 10)>>]

\* The JOIN of vector_search over embeddings listed in order: a row whose
\* chunk is gone joins with nothing, the others keep their order
RECURSIVE JoinInOrder(_)
JoinInOrder(rows) ==
    IF rows = <<>> THEN <<>>
    ELSE LET e == Head(rows) IN
         IF e.chunk_id \in DOMAIN ChunkDoc
         THEN <<Chunk(e.chunk_id, e.distance)>> \o JoinInOrder(Tail(rows))
         ELSE JoinInOrder(Tail(rows))

\* The rows the statement of vector_search yields for each query before LIMIT
IndexRows == [q \in Queries |-> JoinInOrder(EmbeddingIndex[q])]

\* ORDER BY e.embedding <=> %s::vector LIMIT %s
vector_search(query, k) ==
    SubSeq(IndexRows[query], 1, IF k < Len(IndexRows[query]) THEN k ELSE Len(IndexRows[query]))

\* What the generation backend may answer
AnswerTexts ==
    {<<"a", "b">>, <<"[", "a", "]">>, <<"a", "[", "b", "]">>,
     <<"[", "a", "]", "[", "a", "]">>}

\* 'relevance': 1 - chunk['distance'], in hundredths
One == 100

\* sources.append({'title': ..., 'url': ..., 'content': ..., 'relevance': ...});
\* url and content are copied from the chunk and left out here.
FormatSource(chunk) ==
    [title |-> chunk.metadata.title, relevance |-> One - chunk.distance]

\* for chunk in result['chunks']: if doc_id not in seen_docs: sources.append(...)
\* seen_docs holds the document ids already given a source, the keys
\* deduplicate_sources files its chunks under.
ProcessQuerySources(chunks) ==
    LET kept == deduplicate_sources(chunks) IN
        [k \in 1..Len(kept) |-> FormatSource(kept[k])]

\* "processing_time": time.time() - start_time, some positive duration
ElapsedTime == 1

\* "metadata": {"processing_time": ..., "sources_used": len(seen_docs)}
ResponseMetadata(sources) ==
    [processing_time |-> ElapsedTime, sources_used |-> Len(sources)]

\* obj.key of JavaScript: undefined when the object has no such property
Field(obj, key) ==
    IF key \in DOMAIN obj THEN [present |-> TRUE, value |-> obj[key]]
    ELSE [present |-> FALSE, value |-> 0]

\* ToBoolean of an optional number: undefined and 0 are falsy
TruthyNumber(n) == n.present /\ n.value # 0

\* AnswerDisplay: chunkMessage = metadata?.total_chunks ? `Found ...`
\*     : 'No relevant chunks found. The answer was generated using general
\*        knowledge from verified sources.'
ChunkMessage(metadata) ==
    IF TruthyNumber(Field(metadata, "total_chunks")) THEN "found"
    ELSE "general_knowledge"

\* AnswerDisplay: {sources.length > 0 && (... <SourceList sources={sources} />)}
SourceListShown(sources) == Len(sources) > 0

\* assistant.process_query(query): vector search, generation, citation
\* extraction, with nothing kept on the assistant between calls.
AssistantProcessQuery(query, raw) ==
    LET ex == extract_citations(raw) IN
        [chunks |-> vector_search(query, DefaultK),
         answer |-> ex.text,
         citations |-> ex.citations]

\* The documents the generator may have drawn a cited statement from: the
\* prompt labels each chunk with [title], so a marker stands for any
\* retrieved document of that title, and for none (0) when there is none
CitedDocuments(query, title) ==
    LET docs == {c.metadata.document_id :
                    c \in {x \in {vector_search(query, DefaultK)[i] :
                                     i \in 1..Len(vector_search(query, DefaultK))} :
                              x.metadata.title = title}}
    IN IF docs = {} THEN {0} ELSE docs

\* One cited document per marker of the generated text
CitedChoices(query, raw) ==
    LET cits == extract_citations(raw).citations IN
        {f \in [1..Len(cits) -> {0} \cup DOMAIN DocTitle] :
            \A k \in 1..Len(cits) : f[k] \in CitedDocuments(query, cits[k].title)}

\* A variant in which the result is kept in one place shared by all calls:
\* a call reads the result of the first call that has one.
HandlerResultShared(r) ==
    rq_result[CHOOSE x \in Requests :
                 /\ rq_result[x] # None
                 /\ \A y \in Requests : rq_result[y] # None => x <= y]

\* result = await assistant.process_query(request.query): a local of the call
HandlerResult(r) == rq_result[r]

-----------------------------------------------------------------------------
(* The Home page.                                                           *)

QChars == {" ", "a"}

QueryTexts == UNION {[1..n -> QChars] : n \in 0..MaxQueryLen}

\* String.prototype.trim: white space removed from both ends
RECURSIVE TrimStart(_)
TrimStart(s) ==
    IF s # <<>> /\ Head(s) = " " THEN TrimStart(Tail(s)) ELSE s

RECURSIVE TrimEnd(_)
TrimEnd(s) ==
    IF s # <<>> /\ s[Len(s)] = " " THEN TrimEnd(SubSeq(s, 1, Len(s) - 1)) ELSE s

Trim(s) == TrimEnd(TrimStart(s))

\* A variant of the guard that tests the text as typed
SubmitGuardUntrimmed(query) == query # <<>>

\* if (query.trim() && ...): the trimmed text is a non-empty string
SubmitGuard(query) == Trim(query) # <<>>

\* An optional string: null or undefined when not present
Absent == [present |-> FALSE, value |-> ""]

Str(v) == [present |-> TRUE, value |-> v]

\* ToBoolean of an optional string: null, undefined and '' are falsy
Truthy(e) == e.present /\ e.value # ""

\* The error field a response body may carry
ErrorFields == {Absent, Str(""), Str("boom")}

\* What can fail on the server while it handles a query
Causes == {"invalid_query", "embedding", "generation"}

\* How a fetch call can settle: the promise rejects, the status is not ok,
\* the body is no JSON, or the body is a RAGResponse.  cause is what failed
\* on the server, "none" when nothing did; the server reports a failure by a
\* status that is not ok or by the error field of the body.
Outcomes ==
    {[kind |-> k, error |-> Absent, cause |-> "none"] : k \in {"reject", "bad_json"}}
    \cup {[kind |-> "not_ok", error |-> Absent, cause |-> c] : c \in Causes}
    \cup {[kind |-> "json", error |-> Absent, cause |-> "none"]}
    \cup {[kind |-> "json", error |-> e, cause |-> c] :
              e \in ErrorFields \ {Absent}, c \in Causes}

\* The messages handleQuery itself supplies
GenericMessages == {"Failed to get response", "Something went wrong"}

NoResponse == [present |-> FALSE, query |-> <<>>, error |-> Absent]

\* if (data.error)
DataErrorCheck(data_error) == Truthy(data_error)

\* What the try block throws for an outcome, if anything: the message of the
\* Error that reaches the catch clause
Thrown(o) ==
    IF o.kind = "reject" THEN Str("Failed to fetch")
    ELSE IF o.kind = "not_ok" THEN Str("Failed to get response")
    ELSE IF o.kind = "bad_json" THEN Str("Unexpected token")
    ELSE IF DataErrorCheck(o.error) THEN Str(o.error.value)
    ELSE Absent

\* A variant of handleQuery that does not save the query
SavedQueryUnchanged(query) == currentQuery

\* setCurrentQuery(query)
SavedQuery(query) == query

\* {error && (<ErrorMessage message={error} .../>)}
ErrorShown == Truthy(error)

\* A variant in which the error message and its button stay on the page
\* while a request is under way
RetryShownWhileLoading == currentQuery # <<>>

\* retry={currentQuery ? retry : undefined} and {retry && (<button .../>)}
RetryShown == ErrorShown /\ currentQuery # <<>>

\* {response && !isLoading && (<AnswerDisplay .../>)}
AnswerShown == response.present /\ ~isLoading

-----------------------------------------------------------------------------
(* Duplicate-word cleanup: text.replace(/\b(\w+)\s+\1+\b/g, '$1').          *)

ExChars == {"a", "b", " "}

ExcerptTexts == UNION {[1..n -> ExChars] : n \in 0..MaxExcerptLen}

\* \w
IsWordChar(c) == c \in {"a", "b"}

\* \s
IsSpace(c) == c = " "

\* \b before the 1-based position p: exactly one of the characters on the
\* two sides is a word character
WordBoundary(text, p) ==
    (p > 1 /\ IsWordChar(text[p - 1])) # (p <= Len(text) /\ IsWordChar(text[p]))

\* (\w+), greedy: the number of word characters from position i on
RECURSIVE WordRun(_, _)
WordRun(text, i) ==
    IF i <= Len(text) /\ IsWordChar(text[i]) THEN 1 + WordRun(text, i + 1) ELSE 0

\* \s+, greedy: the number of white-space characters from position i on
RECURSIVE SpaceRun(_, _)
SpaceRun(text, i) ==
    IF i <= Len(text) /\ IsSpace(text[i]) THEN 1 + SpaceRun(text, i + 1) ELSE 0

\* \1+, greedy: the number of consecutive copies of w from position p on
RECURSIVE Copies(_, _, _)
Copies(text, p, w) ==
    IF p + Len(w) - 1 <= Len(text) /\ SubSeq(text, p, p + Len(w) - 1) = w
    THEN 1 + Copies(text, p + Len(w), w)
    ELSE 0

\* The pattern tried at position i: the position after the match, or 0.
\* Giving back characters of (\w+) leaves a word character where \s+ has to
\* start, and giving back copies of \1 or white space leaves a word character
\* on both sides of the final \b, so only the greedy choices can match.
DupMatchEnd(text, i) ==
    LET n == WordRun(text, i) IN
        IF n = 0 \/ ~WordBoundary(text, i) THEN 0
        ELSE LET s == SpaceRun(text, i + n)
                 m == Copies(text, i + n + s, SubSeq(text, i, i + n - 1))
                 e == i + n + s + m * n
             IN IF s >= 1 /\ m >= 1 /\ WordBoundary(text, e) THEN e ELSE 0

\* replace with the g flag: matches are searched left to right in the text
\* as given, each search starting where the previous match ended; a match is
\* replaced by its first group, every other character is copied.
RECURSIVE ReplaceDuplicates(_, _)
ReplaceDuplicates(text, i) ==
    IF i > Len(text) THEN <<>>
    ELSE LET e == DupMatchEnd(text, i) IN
         IF e # 0
         THEN SubSeq(text, i, i + WordRun(text, i) - 1) \o ReplaceDuplicates(text, e)
         ELSE <<text[i]>> \o ReplaceDuplicates(text, i + 1)

\* SourceList.cleanExcerpt
cleanExcerpt(text) == ReplaceDuplicates(text, 1)

\* FormattedAnswer.cleanText
cleanText(text) == ReplaceDuplicates(text, 1)

-----------------------------------------------------------------------------
(* Each specification below runs one part of the program; the variables of  *)
(* the other parts rest at these values.                                    *)

ExtractIdle ==
    /\ ex_pc = "off"
    /\ raw_text = <<>>
    /\ src_titles = {}
    /\ clean_text = <<>>
    /\ citations = <<>>

AggIdle ==
    /\ ag_pc = "off"
    /\ candidates = <<>>
    /\ unique_sources = <<>>

SrvIdle ==
    /\ instance = "off"
    /\ rq_pc = <<>>
    /\ rq_query = <<>>
    /\ rq_raw = <<>>
    /\ rq_result = <<>>
    /\ rq_resp = <<>>
    /\ rq_concurrent = <<>>
    /\ rq_cited = <<>>

HomeIdle ==
    /\ isLoading = FALSE
    /\ response = NoResponse
    /\ error = Absent
    /\ currentQuery = <<>>
    /\ input_query = <<>>
    /\ pending = <<>>
    /\ last_submitted = <<>>
    /\ last_event = "off"
    /\ last_outcome = "none"
    /\ last_cause = "none"

CleanIdle ==
    /\ cl_pc = "off"
    /\ excerpt = <<>>
    /\ cleaned = <<>>

RetrieveIdle ==
    /\ rt_pc = "off"
    /\ embeddings = {}
    /\ rt_k = 0
    /\ retrieved = <<>>

SegmentIdle ==
    /\ sg_pc = "off"
    /\ sg_answer = <<>>
    /\ sg_citations = <<>>
    /\ sg_segments = <<>>

DisplayIdle ==
    /\ dp_pc = "off"
    /\ dp_text = <<>>
    /\ dp_answer = <<>>
    /\ dp_citations = <<>>
    /\ dp_shown = <<>>
    /\ dp_segments = <<>>

LinkIdle ==
    /\ lk_done = {"off"}
    /\ lk_html = <<>>
    /\ lk_sources = <<>>
    /\ lk_out = <<>>
    /\ lk_ids = {}

ToastIdle ==
    /\ to_mounted = "off"
    /\ to_props = <<>>
    /\ isVisible = FALSE
    /\ to_timer = [armed |-> FALSE, left |-> 0]
    /\ to_effects = 0
    /\ to_clicked = FALSE
    /\ onCloseCalls = 0

-----------------------------------------------------------------------------
(* The extractor applied to every bounded answer text.                      *)

ExtractInit ==
    /\ ex_pc = "input"
    /\ raw_text \in Texts
    /\ src_titles \in SUBSET Titles
    /\ clean_text = <<>>
    /\ citations = <<>>
    /\ AggIdle /\ SrvIdle /\ HomeIdle /\ CleanIdle /\ RetrieveIdle /\ SegmentIdle /\ DisplayIdle /\ LinkIdle /\ ToastIdle

ExtractCitations ==
    /\ ex_pc = "input"
    /\ LET r == extract_citations(raw_text) IN
         /\ clean_text' = r.text
         /\ citations' = r.citations
    /\ ex_pc' = "done"
    /\ UNCHANGED <<raw_text, src_titles>>
    /\ UNCHANGED <<agVars, srvVars, homeVars, clVars, rtVars, sgVars, dpVars, lkVars, toVars>>

ExtractNext == ExtractCitations

ExtractSpec == ExtractInit /\ [][ExtractNext]_vars

-----------------------------------------------------------------------------
(* Claims about the citation extractor.                                     *)

\* A marker as the specification describes it: a literal "[", text without
\* brackets, a literal "]"; i and j are the 1-based places of the brackets.
IsMarker(text, i, j) ==
    /\ i < j
    /\ text[i] = "["
    /\ text[j] = "]"
    /\ \A k \in (i + 1)..(j - 1) : text[k] \notin {"[", "]"}

HasMarker(text) ==
    \E i \in 1..Len(text) : \E j \in 1..Len(text) : IsMarker(text, i, j)

C2_CitationsSortedDisjoint ==
    ex_pc = "done" =>
        \A k \in 1..(Len(citations) - 1) :
            /\ citations[k].start_idx <= citations[k + 1].start_idx
            /\ citations[k].end_idx <= citations[k + 1].start_idx

\* A text with two citations, the second of which follows an open bracket
\* that belongs to the first.
C2_Witness ==
    /\ ex_pc = "done"
    /\ Len(citations) >= 2
    /\ \E i \in 1..Len(citations[1].title) : citations[1].title[i] = "["

\* C4: every marker of raw_text whose inner text is no source title stays in
\* clean_text with its brackets and gets no citation record.
C4_UnresolvedMarkerPassthrough ==
    ex_pc = "done" =>
        \A i \in 1..Len(raw_text) : \A j \in 1..Len(raw_text) :
            (IsMarker(raw_text, i, j) /\ SubSeq(raw_text, i + 1, j - 1) \notin src_titles)
            => /\ \E a \in 0..Len(clean_text) : \E b \in a..Len(clean_text) :
                      Slice(clean_text, a, b) = SubSeq(raw_text, i, j)
               /\ \A k \in 1..Len(citations) :
                      \/ citations[k].end_idx <= i - 1
                      \/ j <= citations[k].start_idx

-----------------------------------------------------------------------------
(* The aggregation step applied to every bounded candidate list.            *)

AggInit ==
    /\ ag_pc = "input"
    /\ candidates \in CandidateLists
    /\ unique_sources = <<>>
    /\ ExtractIdle /\ SrvIdle /\ HomeIdle /\ CleanIdle /\ RetrieveIdle /\ SegmentIdle /\ DisplayIdle /\ LinkIdle /\ ToastIdle

Aggregate ==
    /\ ag_pc = "input"
    /\ unique_sources' = deduplicate_sources(candidates)
    /\ ag_pc' = "done"
    /\ UNCHANGED candidates
    /\ UNCHANGED <<exVars, srvVars, homeVars, clVars, rtVars, sgVars, dpVars, lkVars, toVars>>

AggNext == Aggregate

AggSpec == AggInit /\ [][AggNext]_vars

\* The document ids of a list of chunks
DocIds(l) == {l[k].metadata.document_id : k \in 1..Len(l)}

\* C6: the aggregated source list holds exactly one entry per distinct
\* document id of the candidates; candidates that share a title but not a
\* document id stay separate sources.
C6_OneSourcePerDocument ==
    ag_pc = "done" =>
        /\ DocIds(unique_sources) = DocIds(candidates)
        /\ \A i \in 1..Len(unique_sources) : \A j \in 1..Len(unique_sources) :
               unique_sources[i].metadata.document_id
                   = unique_sources[j].metadata.document_id => i = j

\* Candidates with two chunks of one document and a chunk of another
\* document that carries the same title.
C6_Witness ==
    /\ ag_pc = "done"
    /\ \E i \in 1..Len(candidates) : \E j \in 1..Len(candidates) :
          /\ i # j
          /\ candidates[i].metadata.document_id = candidates[j].metadata.document_id
    /\ \E i \in 1..Len(candidates) : \E j \in 1..Len(candidates) :
          /\ candidates[i].metadata.document_id # candidates[j].metadata.document_id
          /\ candidates[i].metadata.title = candidates[j].metadata.title
    /\ Len(unique_sources) = 2

\* C13: the aggregated source list is ordered by relevance descending, and
\* sources of equal relevance by document id ascending.
C13_SourcesOrderedByRelevance ==
    ag_pc = "done" =>
        \A k \in 1..(Len(unique_sources) - 1) :
            LET this == unique_sources[k]
                next == unique_sources[k + 1]
            IN \/ FormatSource(this).relevance > FormatSource(next).relevance
               \/ /\ FormatSource(this).relevance = FormatSource(next).relevance
                  /\ this.metadata.document_id < next.metadata.document_id

C15_RelevanceClamped ==
    ag_pc = "done" =>
        \A k \in 1..Len(unique_sources) :
            /\ 0 <= FormatSource(unique_sources[k]).relevance
            /\ FormatSource(unique_sources[k]).relevance <= One

-----------------------------------------------------------------------------
(* Concurrent calls of the /api/query endpoint on one assistant.            *)

SrvInit ==
    /\ instance = "none"
    /\ rq_pc = [r \in Requests |-> "idle"]
    /\ rq_query = [r \in Requests |-> "q1"]
    /\ rq_raw = [r \in Requests |-> <<>>]
    /\ rq_result = [r \in Requests |-> None]
    /\ rq_resp = [r \in Requests |-> None]
    /\ rq_concurrent = [r \in Requests |-> FALSE]
    /\ rq_cited = [r \in Requests |-> <<>>]
    /\ ExtractIdle /\ AggIdle /\ HomeIdle /\ CleanIdle /\ RetrieveIdle /\ SegmentIdle /\ DisplayIdle /\ LinkIdle /\ ToastIdle

InFlight(r) == rq_pc[r] \in {"get_instance", "process", "format"}

\* The calls other than r that are in flight mark r, and r marks them
MarkConcurrent(r) ==
    rq_concurrent' =
        [x \in Requests |->
            IF \E y \in Requests : y # x /\ (x = r \/ y = r) /\ InFlight(x) /\ InFlight(y)
            THEN TRUE ELSE rq_concurrent[x]]

\* @app.post("/api/query") async def process_query(request): a call arrives
Receive(r, q) ==
    /\ rq_pc[r] = "idle"
    /\ rq_pc' = [rq_pc EXCEPT ![r] = "get_instance"]
    /\ rq_query' = [rq_query EXCEPT ![r] = q]
    /\ rq_raw' = [rq_raw EXCEPT ![r] = <<>>]
    /\ rq_result' = [rq_result EXCEPT ![r] = None]
    /\ rq_resp' = [rq_resp EXCEPT ![r] = None]
    /\ rq_concurrent' = [rq_concurrent EXCEPT ![r] = FALSE]
    /\ rq_cited' = [rq_cited EXCEPT ![r] = <<>>]
    /\ UNCHANGED instance
    /\ UNCHANGED <<exVars, agVars, homeVars, clVars, rtVars, sgVars, dpVars, lkVars, toVars>>

\* assistant = await ERCOTRAGAssistant.get_instance()
GetInstance(r) ==
    /\ rq_pc[r] = "get_instance"
    /\ instance' = "ready"
    /\ rq_pc' = [rq_pc EXCEPT ![r] = "process"]
    /\ MarkConcurrent(r)
    /\ UNCHANGED <<rq_query, rq_raw, rq_result, rq_resp, rq_cited>>
    /\ UNCHANGED <<exVars, agVars, homeVars, clVars, rtVars, sgVars, dpVars, lkVars, toVars>>

\* result = await assistant.process_query(request.query)
ProcessQuery(r, raw) ==
    /\ rq_pc[r] = "process"
    /\ instance = "ready"
    /\ rq_raw' = [rq_raw EXCEPT ![r] = raw]
    /\ rq_result' = [rq_result EXCEPT ![r] = AssistantProcessQuery(rq_query[r], raw)]
    /\ rq_pc' = [rq_pc EXCEPT ![r] = "format"]
    /\ \E cited \in CitedChoices(rq_query[r], raw) :
          rq_cited' = [rq_cited EXCEPT ![r] = cited]
    /\ MarkConcurrent(r)
    /\ UNCHANGED <<instance, rq_query, rq_resp>>
    /\ UNCHANGED <<exVars, agVars, homeVars, clVars, rtVars, sgVars, dpVars, lkVars, toVars>>

\* Process and format sources; the response is answer, citations, sources
FormatResponse(r) ==
    /\ rq_pc[r] = "format"
    /\ LET result == HandlerResult(r) IN
         rq_resp' = [rq_resp EXCEPT ![r] =
                        [answer |-> result.answer,
                         citations |-> result.citations,
                         sources |-> ProcessQuerySources(result.chunks),
                         metadata |->
                             ResponseMetadata(ProcessQuerySources(result.chunks))]]
    /\ rq_pc' = [rq_pc EXCEPT ![r] = "done"]
    /\ MarkConcurrent(r)
    /\ UNCHANGED <<instance, rq_query, rq_raw, rq_result, rq_cited>>
    /\ UNCHANGED <<exVars, agVars, homeVars, clVars, rtVars, sgVars, dpVars, lkVars, toVars>>

\* The JSON is returned and the call ends
Return(r) ==
    /\ rq_pc[r] = "done"
    /\ rq_pc' = [rq_pc EXCEPT ![r] = "idle"]
    /\ UNCHANGED <<instance, rq_query, rq_raw, rq_result, rq_resp, rq_concurrent,
                   rq_cited>>
    /\ UNCHANGED <<exVars, agVars, homeVars, clVars, rtVars, sgVars, dpVars, lkVars, toVars>>

SrvNext ==
    \E r \in Requests :
        \/ \E q \in Queries : Receive(r, q)
        \/ GetInstance(r)
        \/ \E raw \in AnswerTexts : ProcessQuery(r, raw)
        \/ FormatResponse(r)
        \/ Return(r)

SrvSpec == SrvInit /\ [][SrvNext]_vars

\* C3: in every response, each citation's title is the title of some source
\* of that response.
C3_NoDanglingCitation ==
    \A r \in Requests :
        rq_pc[r] = "done" =>
            \A k \in 1..Len(rq_resp[r].citations) :
                \E n \in 1..Len(rq_resp[r].sources) :
                    rq_resp[r].sources[n].title = rq_resp[r].citations[k].title

C20_MetadataCounts ==
    \A r \in Requests :
        rq_pc[r] = "done" =>
            LET total == Field(rq_resp[r].metadata, "total_chunks")
                unique == Field(rq_resp[r].metadata, "unique_sources")
            IN /\ total = [present |-> TRUE, value |-> Len(rq_result[r].chunks)]
               /\ unique = [present |-> TRUE, value |-> Len(rq_resp[r].sources)]
               /\ unique.value <= total.value

MarkerCount(text, title) ==
    Cardinality({i \in 1..Len(text) :
                    /\ i + Len(title) + 1 <= Len(text)
                    /\ SubSeq(text, i, i + Len(title) + 1) = RenderedTitle(title)})

\* The citation segments among the segments of a response
CitationSegments(resp) ==
    LET segments == AnswerSegments(resp.answer, resp.citations, resp.sources)
    IN {n \in 1..Len(segments) : segments[n].type = "citation"}

IsCitationSegment(segment) == segment.type = "citation"

RenderedCitations(resp) ==
    SelectSeq(AnswerSegments(resp.answer, resp.citations, resp.sources),
              IsCitationSegment)

\* C24: a citation is attached to the source of the cited document: when
\* two sources of a response share a title, the citation goes to the one
\* with the cited document's id, not to the first one with that title.
C24_CitationResolvedById ==
    \A r \in Requests :
        rq_pc[r] = "done" =>
            LET rendered == RenderedCitations(rq_resp[r])
                kept == deduplicate_sources(rq_result[r].chunks)
            IN \A k \in 1..Len(rendered) :
                   rendered[k].source.found =>
                       kept[rendered[k].source.index].metadata.document_id
                           = rq_cited[r][k]

-----------------------------------------------------------------------------
(* The Home page: the user types, submits and retries; fetch calls settle.  *)

HomeInit ==
    /\ isLoading = FALSE
    /\ response = NoResponse
    /\ error = Absent
    /\ currentQuery = <<>>
    /\ input_query = <<>>
    /\ pending = <<>>
    /\ last_submitted = <<>>
    /\ last_event = "none"
    /\ last_outcome = "none"
    /\ last_cause = "none"
    /\ ExtractIdle /\ AggIdle /\ SrvIdle /\ CleanIdle /\ RetrieveIdle /\ SegmentIdle /\ DisplayIdle /\ LinkIdle /\ ToastIdle

\* handleQuery(query) up to its first await: setIsLoading(true),
\* setError(null), setCurrentQuery(query), fetch(...) is sent
HandleQueryStart(query) ==
    /\ isLoading' = TRUE
    /\ error' = Absent
    /\ currentQuery' = SavedQuery(query)
    /\ pending' = Append(pending, [query |-> query, settled |-> FALSE,
                                  outcome |-> [kind |-> "reject", error |-> Absent,
                                               cause |-> "none"]])
    /\ last_outcome' = "none"
    /\ last_cause' = "none"
    /\ UNCHANGED response

\* QueryInput: onChange={(e) => setQuery(e.target.value)}, disabled={isLoading}
TypeQuery(t) ==
    /\ ~isLoading
    /\ input_query' = t
    /\ last_event' = "type"
    /\ UNCHANGED <<isLoading, response, error, currentQuery, pending,
                   last_submitted, last_outcome, last_cause>>
    /\ UNCHANGED <<exVars, agVars, srvVars, clVars, rtVars, sgVars, dpVars, lkVars, toVars>>

\* QueryInput.handleSubmit: if (query.trim() && !isLoading) onSubmit(query.trim())
Submit ==
    /\ SubmitGuard(input_query)
    /\ ~isLoading
    /\ HandleQueryStart(Trim(input_query))
    /\ last_submitted' = Trim(input_query)
    /\ last_event' = "submit"
    /\ UNCHANGED input_query
    /\ UNCHANGED <<exVars, agVars, srvVars, clVars, rtVars, sgVars, dpVars, lkVars, toVars>>

\* The Try Again button of ErrorMessage: retry()
Retry ==
    /\ RetryShown
    /\ currentQuery # <<>>
    /\ HandleQueryStart(currentQuery)
    /\ last_event' = "retry"
    /\ UNCHANGED <<input_query, last_submitted>>
    /\ UNCHANGED <<exVars, agVars, srvVars, clVars, rtVars, sgVars, dpVars, lkVars, toVars>>

\* The network settles a fetch call; nothing makes it do so
FetchSettle(i, o) ==
    /\ i \in 1..Len(pending)
    /\ ~pending[i].settled
    /\ pending' = [pending EXCEPT ![i] = [query |-> pending[i].query,
                                         settled |-> TRUE, outcome |-> o]]
    /\ UNCHANGED <<isLoading, response, error, currentQuery, input_query,
                   last_submitted, last_event, last_outcome, last_cause>>
    /\ UNCHANGED <<exVars, agVars, srvVars, clVars, rtVars, sgVars, dpVars, lkVars, toVars>>

\* handleQuery after its awaits: setResponse(data) or the catch clause, then
\* the finally clause
HandleQueryFinish(i) ==
    /\ i \in 1..Len(pending)
    /\ pending[i].settled
    /\ LET o == pending[i].outcome
           thrown == Thrown(o) IN
         IF thrown.present
         THEN /\ error' = thrown
              /\ last_outcome' = "failed"
              /\ UNCHANGED response
         ELSE /\ response' = [present |-> TRUE, query |-> pending[i].query,
                              error |-> o.error]
              /\ last_outcome' = "ok"
              /\ UNCHANGED error
    /\ last_cause' = pending[i].outcome.cause
    /\ isLoading' = FALSE
    /\ pending' = SubSeq(pending, 1, i - 1) \o SubSeq(pending, i + 1, Len(pending))
    /\ last_event' = "none"
    /\ UNCHANGED <<currentQuery, input_query, last_submitted>>
    /\ UNCHANGED <<exVars, agVars, srvVars, clVars, rtVars, sgVars, dpVars, lkVars, toVars>>

HomeNext ==
    \/ \E t \in QueryTexts : TypeQuery(t)
    \/ Submit
    \/ Retry
    \/ \E i \in 1..Len(pending) : \E o \in Outcomes : FetchSettle(i, o)
    \/ \E i \in 1..Len(pending) : HandleQueryFinish(i)

HomeSpec == HomeInit /\ [][HomeNext]_vars

\* The event loop runs the continuation of a settled fetch; the network owes
\* nothing.
FairHomeSpec ==
    HomeSpec /\ WF_vars(\E i \in 1..Len(pending) : HandleQueryFinish(i))

\* C8: a failed request is never presented as a completed answer: no response
\* that carries an error field reaches setResponse.
C8_FailedNeverPresented ==
    response.present => ~response.error.present

\* C9: after a query fails, the error message is displayed, with the retry
\* action whenever a query string has been submitted; and retry issues a
\* request for exactly the most recently submitted query string.
C9_FailureShowsRetry ==
    /\ last_outcome = "failed" =>
          /\ ErrorShown
          /\ last_submitted # <<>> => RetryShown
    /\ last_event = "retry" =>
          /\ Len(pending) >= 1
          /\ pending[Len(pending)].query = last_submitted

\* A retry issued while the input box holds another text than the query
\* that failed.
C9_Witness ==
    /\ last_event = "retry"
    /\ Len(pending) = 1
    /\ Trim(input_query) # last_submitted
    /\ Trim(input_query) # <<>>

\* C10: every submitted query ends in a displayed answer or a displayed
\* error; the loading state is always eventually left.
C10_LoadingEventuallyLeft ==
    isLoading ~> ~isLoading

\* C21: when the embedding or the generation failed, the message shown is
\* one of the fixed messages of the page and does not depend on the text the
\* server returned.
C21_GenericFailureMessage ==
    (last_outcome = "failed" /\ last_cause \in {"embedding", "generation"}) =>
        /\ error.present
        /\ error.value \in GenericMessages

\* C25: at most one request is outstanding at any time: a submit or a retry
\* starts a request only while isLoading is false, and isLoading is true
\* exactly while a request is outstanding.
C25_OneRequestOutstanding ==
    /\ Len(pending) <= 1
    /\ isLoading <=> Len(pending) = 1
    /\ last_event \in {"submit", "retry"} => Len(pending) = 1

\* A retry whose response has arrived and waits to be handled.
C25_Witness ==
    /\ last_event = "retry"
    /\ Len(pending) = 1
    /\ pending[1].settled
    /\ isLoading

\* C26: an answer on display is the answer to the most recently submitted
\* query; after a query has failed no answer is displayed next to its error.
C26_AnswerIsForLatestQuery ==
    AnswerShown =>
        /\ response.query = last_submitted
        /\ last_outcome # "failed"

-----------------------------------------------------------------------------
(* The duplicate-word cleanup applied twice to every bounded text.          *)

CleanInit ==
    /\ cl_pc = "input"
    /\ excerpt \in ExcerptTexts
    /\ cleaned = <<>>
    /\ ExtractIdle /\ AggIdle /\ SrvIdle /\ HomeIdle /\ RetrieveIdle /\ SegmentIdle /\ DisplayIdle /\ LinkIdle /\ ToastIdle

\* The text the next application is given
CleanupInput == IF cleaned = <<>> THEN excerpt ELSE cleaned[Len(cleaned)]

\* {cleanExcerpt(source.highlights[0])}
CleanExcerpt ==
    /\ cl_pc \in {"input", "once"}
    /\ cleaned' = Append(cleaned, cleanExcerpt(CleanupInput))
    /\ cl_pc' = IF cl_pc = "input" THEN "once" ELSE "twice"
    /\ UNCHANGED excerpt
    /\ UNCHANGED <<exVars, agVars, srvVars, homeVars, rtVars, sgVars, dpVars, lkVars, toVars>>

\* processCitations(cleanText(content))
CleanText ==
    /\ cl_pc \in {"input", "once"}
    /\ cleaned' = Append(cleaned, cleanText(CleanupInput))
    /\ cl_pc' = IF cl_pc = "input" THEN "once" ELSE "twice"
    /\ UNCHANGED excerpt
    /\ UNCHANGED <<exVars, agVars, srvVars, homeVars, rtVars, sgVars, dpVars, lkVars, toVars>>

CleanNext == CleanExcerpt \/ CleanText

CleanSpec == CleanInit /\ [][CleanNext]_vars

\* The words of a text, in order: its maximal runs of word characters
RECURSIVE WordsFrom(_, _)
WordsFrom(text, i) ==
    IF i > Len(text) THEN <<>>
    ELSE IF IsWordChar(text[i])
         THEN LET n == WordRun(text, i) IN
                  <<SubSeq(text, i, i + n - 1)>> \o WordsFrom(text, i + n)
         ELSE WordsFrom(text, i + 1)

\* A list of words with every run of identical adjacent words cut to one
RECURSIVE CollapseRuns(_)
CollapseRuns(words) ==
    IF Len(words) <= 1 THEN words
    ELSE IF words[1] = words[2] THEN CollapseRuns(Tail(words))
         ELSE <<words[1]>> \o CollapseRuns(Tail(words))

\* C22: the cleanup cuts every run of two or more adjacent identical words
\* to one occurrence and changes nothing else: the output has no two
\* adjacent identical words and only words equal to the word before them
\* are removed.
C22_CleanupCollapsesRuns ==
    cl_pc \in {"once", "twice"} =>
        LET out == WordsFrom(cleaned[1], 1) IN
            /\ \A k \in 1..(Len(out) - 1) : out[k] # out[k + 1]
            /\ out = CollapseRuns(WordsFrom(excerpt, 1))

\* C12: the cleanup is idempotent: cleaning an already cleaned text gives
\* the same text.
C12_CleanupIdempotent ==
    cl_pc = "twice" => cleaned[2] = cleaned[1]

-----------------------------------------------------------------------------
(* Two searches for one query against an unchanged index.                   *)

RetrieveInit ==
    /\ rt_pc = "ready"
    /\ embeddings \in EmbeddingTables
    /\ rt_k \in 1..MaxK
    /\ retrieved = <<>>
    /\ ExtractIdle /\ AggIdle /\ SrvIdle /\ HomeIdle /\ CleanIdle /\ SegmentIdle /\ DisplayIdle /\ LinkIdle /\ ToastIdle

\* vector_search(query, k): the statement runs and returns its rows
VectorSearch ==
    /\ rt_pc \in {"ready", "first"}
    /\ \E rows \in VectorSearchOutcomes(embeddings, rt_k) :
          retrieved' = Append(retrieved, rows)
    /\ rt_pc' = IF rt_pc = "ready" THEN "first" ELSE "second"
    /\ UNCHANGED <<embeddings, rt_k>>
    /\ UNCHANGED <<exVars, agVars, srvVars, homeVars, clVars, sgVars, dpVars, lkVars, toVars>>

RetrieveNext == VectorSearch

RetrieveSpec == RetrieveInit /\ [][RetrieveNext]_vars

\* C16: a search returns at most k rows, by distance ascending and, at equal
\* distance, by chunk id ascending; two searches for the same query against
\* the unchanged index return the same rows in the same order.
C16_RetrievalDeterministic ==
    /\ \A n \in 1..Len(retrieved) :
          /\ Len(retrieved[n]) <= rt_k
          /\ \A i \in 1..(Len(retrieved[n]) - 1) :
                LET this == retrieved[n][i]
                    next == retrieved[n][i + 1]
                IN \/ this.distance < next.distance
                   \/ this.distance = next.distance /\ this.id < next.id
    /\ \A n \in 1..Len(retrieved) : \A m \in 1..Len(retrieved) :
          retrieved[n] = retrieved[m]

-----------------------------------------------------------------------------
(* AnswerDisplay given any bounded answer and any list of citations whose   *)
(* offsets lie within it.                                                   *)

AnswerStrings == UNION {[1..n -> {"a", "b"}] : n \in 0..MaxAnswerLen}

\* The citations with 0 <= start_idx <= end_idx <= len
CitationsWithin(len) ==
    {[title |-> <<"a">>, start_idx |-> a, end_idx |-> b] :
        a \in 0..len, b \in 0..len} \cap
    {c \in [title : {<<"a">>}, start_idx : 0..len, end_idx : 0..len] :
        c.start_idx <= c.end_idx}

SegmentInit ==
    /\ sg_pc = "input"
    /\ sg_answer \in AnswerStrings
    /\ sg_citations \in UNION {[1..n -> CitationsWithin(Len(sg_answer))] : n \in 0..MaxCits}
    /\ sg_segments = <<>>
    /\ ExtractIdle /\ AggIdle /\ SrvIdle /\ HomeIdle /\ CleanIdle /\ RetrieveIdle /\ DisplayIdle /\ LinkIdle /\ ToastIdle

\* AnswerDisplay renders: the segments are built from the props
RenderSegments ==
    /\ sg_pc = "input"
    /\ sg_segments' = AnswerSegments(sg_answer, sg_citations, <<>>)
    /\ sg_pc' = "done"
    /\ UNCHANGED <<sg_answer, sg_citations>>
    /\ UNCHANGED <<exVars, agVars, srvVars, homeVars, clVars, rtVars, dpVars, lkVars, toVars>>

SegmentNext == RenderSegments

SegmentSpec == SegmentInit /\ [][SegmentNext]_vars

IsTextSegment(segment) == segment.type = "text"

\* Whether position p (0-based) of the answer lies in some citation span
Covered(p) ==
    \E k \in 1..Len(sg_citations) :
        sg_citations[k].start_idx <= p /\ p < sg_citations[k].end_idx

\* No two citations of the list overlap
NonOverlapping ==
    \A i \in 1..Len(sg_citations) : \A j \in 1..Len(sg_citations) :
        i # j => \/ sg_citations[i].end_idx <= sg_citations[j].start_idx
                 \/ sg_citations[j].end_idx <= sg_citations[i].start_idx

\* The answer from 0-based position p on, without its covered characters
RECURSIVE UncoveredFrom(_)
UncoveredFrom(p) ==
    IF p >= Len(sg_answer) THEN <<>>
    ELSE IF Covered(p) THEN UncoveredFrom(p + 1)
         ELSE <<sg_answer[p + 1]>> \o UncoveredFrom(p + 1)

RECURSIVE ConcatContents(_)
ConcatContents(segments) ==
    IF segments = <<>> THEN <<>>
    ELSE Head(segments).content \o ConcatContents(Tail(segments))

\* C27: for citations with 0 <= start_idx <= end_idx <= length(answer), in
\* any order and overlapping or not, the text segments are slices of
\* pairwise disjoint, increasing ranges of the answer, every character that
\* no citation covers is in exactly one text segment, and for
\* non-overlapping citations the text segments put together are the answer
\* without the cited spans.
C27_SegmentationPartitions ==
    sg_pc = "done" =>
        LET texts == SelectSeq(sg_segments, IsTextSegment) IN
            /\ \A k \in 1..Len(texts) :
                   /\ 0 <= texts[k].lo
                   /\ texts[k].lo <= texts[k].hi
                   /\ texts[k].hi <= Len(sg_answer)
                   /\ texts[k].content = Slice(sg_answer, texts[k].lo, texts[k].hi)
            /\ \A k \in 1..(Len(texts) - 1) : texts[k].hi <= texts[k + 1].lo
            /\ \A p \in 0..(Len(sg_answer) - 1) :
                   ~Covered(p) =>
                       Cardinality({k \in 1..Len(texts) :
                                       texts[k].lo <= p /\ p < texts[k].hi}) = 1
            /\ NonOverlapping => ConcatContents(texts) = UncoveredFrom(0)

\* Every citation of the list spans at least one character
NonEmptySpans ==
    \A k \in 1..Len(sg_citations) :
        sg_citations[k].start_idx < sg_citations[k].end_idx

\* C27, for citations with 0 <= start_idx < end_idx <= length(answer): the
\* text segments are slices of pairwise disjoint, increasing ranges of the
\* answer, every character that no citation covers is in exactly one text
\* segment, and for non-overlapping citations the text segments put together
\* are the answer without the cited spans.
C27_SegmentationPartitionsNonEmpty ==
    NonEmptySpans => C27_SegmentationPartitions

\* Two overlapping citations given out of order, with text left over.
C27_Witness ==
    /\ sg_pc = "done"
    /\ NonEmptySpans
    /\ Len(sg_citations) = 2
    /\ sg_citations[1].start_idx > sg_citations[2].start_idx
    /\ ~NonOverlapping
    /\ \E k \in 1..Len(sg_segments) : sg_segments[k].type = "text"

-----------------------------------------------------------------------------
(* formatAnswerContent, and a generated answer from extract_citations to    *)
(* the page.                                                                *)

POpen == <<"<", "p", ">">>

PClose == <<"<", "/", "p", ">">>

StartsWith(s, prefix) ==
    Len(s) >= Len(prefix) /\ SubSeq(s, 1, Len(prefix)) = prefix

EndsWith(s, suffix) ==
    Len(s) >= Len(suffix) /\ SubSeq(s, Len(s) - Len(suffix) + 1, Len(s)) = suffix

\* The length of the run of line breaks s starts with
RECURSIVE LineBreakRun(_)
LineBreakRun(s) ==
    IF s # <<>> /\ Head(s) = NL THEN 1 + LineBreakRun(Tail(s)) ELSE 0

\* html.replace(/\n\n+/g, '</p><p>')
RECURSIVE ReplaceParagraphBreaks(_)
ReplaceParagraphBreaks(s) ==
    IF s = <<>> THEN <<>>
    ELSE LET n == LineBreakRun(s) IN
         IF n >= 2
         THEN PClose \o POpen \o ReplaceParagraphBreaks(SubSeq(s, n + 1, Len(s)))
         ELSE <<Head(s)>> \o ReplaceParagraphBreaks(Tail(s))

\* html.replace(/\n/g, ' ')
ReplaceLineBreaks(s) == [i \in 1..Len(s) |-> IF s[i] = NL THEN " " ELSE s[i]]

\* formatAnswerContent(html).  Steps 1 and 2 rewrite <strong>, <li> and <ol>
\* markup, which no text over Chars contains; steps 3 and 4 are line breaks
\* and the wrapping in <p>...</p>.
formatAnswerContent(html) ==
    LET broken == ReplaceLineBreaks(ReplaceParagraphBreaks(html))
        opened == IF StartsWith(broken, POpen) THEN broken ELSE POpen \o broken
        closed == IF EndsWith(opened, PClose) THEN opened ELSE opened \o PClose
    IN Trim(closed)

DisplayInit ==
    /\ dp_pc = "generated"
    /\ dp_text \in Texts
    /\ dp_answer = <<>>
    /\ dp_citations = <<>>
    /\ dp_shown = <<>>
    /\ dp_segments = <<>>
    /\ ExtractIdle /\ AggIdle /\ SrvIdle /\ HomeIdle /\ CleanIdle /\ RetrieveIdle /\ SegmentIdle /\ LinkIdle /\ ToastIdle

\* extract_citations(text): the offsets are taken, the text goes into the
\* response
CaptureOffsets ==
    /\ dp_pc = "generated"
    /\ LET r == extract_citations(dp_text) IN
         /\ dp_answer' = r.text
         /\ dp_citations' = r.citations
    /\ dp_pc' = "captured"
    /\ UNCHANGED <<dp_text, dp_shown, dp_segments>>
    /\ UNCHANGED <<exVars, agVars, srvVars, homeVars, clVars, rtVars, sgVars, lkVars, toVars>>

\* The AnswerDisplay that cuts segments: answer.slice(lastIndex, start_idx)
DisplaySegments ==
    /\ dp_pc = "captured"
    /\ dp_shown' = dp_answer
    /\ dp_segments' = AnswerSegments(dp_answer, dp_citations, <<>>)
    /\ dp_pc' = "shown"
    /\ UNCHANGED <<dp_text, dp_answer, dp_citations>>
    /\ UNCHANGED <<exVars, agVars, srvVars, homeVars, clVars, rtVars, sgVars, lkVars, toVars>>

\* The AnswerDisplay that sets __html: formatAnswerContent(answer)
DisplayFormatted ==
    /\ dp_pc = "captured"
    /\ dp_shown' = formatAnswerContent(dp_answer)
    /\ dp_segments' = <<>>
    /\ dp_pc' = "shown"
    /\ UNCHANGED <<dp_text, dp_answer, dp_citations>>
    /\ UNCHANGED <<exVars, agVars, srvVars, homeVars, clVars, rtVars, sgVars, lkVars, toVars>>

DisplayNext == CaptureOffsets \/ DisplaySegments \/ DisplayFormatted

DisplaySpec == DisplayInit /\ [][DisplayNext]_vars

\* C23: nothing that changes the length of the answer is applied after the
\* offsets are taken: the string a component shows or slices by start_idx
\* and end_idx is as long as the text the offsets were computed against, and
\* where segments are cut they are cut out of exactly that text.
C23_NoLengthChangeAfterCapture ==
    dp_pc = "shown" =>
        /\ Len(dp_shown) = Len(dp_text)
        /\ dp_segments # <<>> => dp_shown = dp_text

-----------------------------------------------------------------------------
(* processCitations and SourceList: links to sources and the elements they  *)
(* name.                                                                    *)

DigitChars == <<"0", "1", "2", "3", "4", "5", "6", "7", "8", "9">>

DigitValue(c) == CHOOSE d \in 0..9 : DigitChars[d + 1] = c

\* Number(id) for a string of decimal digits
RECURSIVE Number(_)
Number(id) ==
    IF id = <<>> THEN 0
    ELSE 10 * Number(SubSeq(id, 1, Len(id) - 1)) + DigitValue(id[Len(id)])

\* `${n}` for a non-negative integer: its decimal digits, no leading zero
RECURSIVE NumberToString(_)
NumberToString(n) ==
    IF n < 10 THEN <<DigitChars[n + 1]>>
    ELSE NumberToString(n \div 10) \o <<DigitChars[(n % 10) + 1]>>

SourcePrefix == <<"s", "o", "u", "r", "c", "e", "-">>

\* id={`source-${source.metadata.document_id}`}
SourceElementId(document_id) == SourcePrefix \o NumberToString(document_id)

\* sources.find(s => s.metadata.document_id === Number(id))
FindByDocumentId(sources, id) ==
    IF \E i \in 1..Len(sources) : sources[i] = Number(id)
    THEN [found |-> TRUE,
          index |-> CHOOSE i \in 1..Len(sources) :
                       /\ sources[i] = Number(id)
                       /\ \A j \in 1..(i - 1) : sources[j] # Number(id)]
    ELSE [found |-> FALSE, index |-> 0]

\* The callback of html.replace: (_, id, text) => ...
ReplaceCite(cite, sources) ==
    IF ~FindByDocumentId(sources, cite.id).found
    THEN [tag |-> "none", href |-> <<>>, text |-> cite.text]
    ELSE [tag |-> "a", href |-> <<"#">> \o SourcePrefix \o cite.id, text |-> cite.text]

\* processCitations(html): every cite element is replaced by what the
\* callback returns
processCitations(html, sources) ==
    [k \in 1..Len(html) |-> ReplaceCite(html[k], sources)]

\* The digit strings the pattern (\d+) takes as data-source-id
CiteIds == {<<"0">>, <<"1">>, <<"2">>, <<"0", "1">>, <<"1", "0">>}

CiteElements == [id : CiteIds, text : {<<"a">>}]

DocumentIds == {1, 2, 10}

LinkInit ==
    /\ lk_done = {}
    /\ lk_html \in UNION {[1..n -> CiteElements] : n \in 0..MaxCits}
    /\ lk_sources \in UNION {[1..n -> DocumentIds] : n \in 0..MaxK}
    /\ lk_out = <<>>
    /\ lk_ids = {}
    /\ ExtractIdle /\ AggIdle /\ SrvIdle /\ HomeIdle /\ CleanIdle /\ RetrieveIdle /\ SegmentIdle /\ DisplayIdle /\ ToastIdle

\* FormattedAnswer renders: __html: processCitations(content)
RenderFormattedAnswer ==
    /\ "answer" \notin lk_done
    /\ lk_out' = processCitations(lk_html, lk_sources)
    /\ lk_done' = lk_done \cup {"answer"}
    /\ UNCHANGED <<lk_html, lk_sources, lk_ids>>
    /\ UNCHANGED <<exVars, agVars, srvVars, homeVars, clVars, rtVars, sgVars, dpVars, toVars>>

\* SourceList renders one element per source
RenderSourceList ==
    /\ "sources" \notin lk_done
    /\ lk_ids' = {SourceElementId(lk_sources[i]) : i \in 1..Len(lk_sources)}
    /\ lk_done' = lk_done \cup {"sources"}
    /\ UNCHANGED <<lk_html, lk_sources, lk_out>>
    /\ UNCHANGED <<exVars, agVars, srvVars, homeVars, clVars, rtVars, sgVars, dpVars, toVars>>

LinkNext == RenderFormattedAnswer \/ RenderSourceList

LinkSpec == LinkInit /\ [][LinkNext]_vars

\* C28: with the same sources given to both components, every link put in
\* place of a cite element points at an element SourceList rendered, and a
\* cite element whose data-source-id is no source's document_id is replaced
\* by its inner text, without a link.
C28_NoDanglingLink ==
    lk_done = {"answer", "sources"} =>
        \A k \in 1..Len(lk_out) :
            /\ lk_out[k].tag = "a" => Tail(lk_out[k].href) \in lk_ids
            /\ (\A i \in 1..Len(lk_sources) : lk_sources[i] # Number(lk_html[k].id))
                   => lk_out[k] = [tag |-> "none", href |-> <<>>,
                                   text |-> lk_html[k].text]

-----------------------------------------------------------------------------
(* One Toast, from mount to unmount.                                        *)

ToastTypes == {"success", "error", "info"}

ToastProps == [type : ToastTypes, duration : 1..MaxDuration, onClose : BOOLEAN]

\* onClose?.(): the number of invocations after one more call
CallOnClose(props, calls) == IF props.onClose THEN calls + 1 ELSE calls

\* The component mounts: useState(true), and the effect sets its timeout
ToastInit ==
    /\ to_mounted = TRUE
    /\ to_props \in ToastProps
    /\ isVisible = TRUE
    /\ to_timer = [armed |-> TRUE, left |-> to_props.duration]
    /\ to_effects = 1
    /\ to_clicked = FALSE
    /\ onCloseCalls = 0
    /\ ExtractIdle /\ AggIdle /\ SrvIdle /\ HomeIdle /\ CleanIdle /\ RetrieveIdle /\ SegmentIdle /\ DisplayIdle /\ LinkIdle

\* Time passes
Tick ==
    /\ to_timer.armed
    /\ to_timer.left > 0
    /\ to_timer' = [to_timer EXCEPT !.left = @ - 1]
    /\ UNCHANGED <<to_mounted, to_props, isVisible, to_effects, to_clicked, onCloseCalls>>
    /\ UNCHANGED <<exVars, agVars, srvVars, homeVars, clVars, rtVars, sgVars, dpVars, lkVars>>

\* The timeout's callback: setIsVisible(false); onClose?.()
TimerFires ==
    /\ to_timer.armed
    /\ to_timer.left = 0
    /\ onCloseCalls < MaxCalls
    /\ to_timer' = [armed |-> FALSE, left |-> 0]
    /\ isVisible' = FALSE
    /\ onCloseCalls' = CallOnClose(to_props, onCloseCalls)
    /\ UNCHANGED <<to_mounted, to_props, to_effects, to_clicked>>
    /\ UNCHANGED <<exVars, agVars, srvVars, homeVars, clVars, rtVars, sgVars, dpVars, lkVars>>

\* The close button's onClick: setIsVisible(false); onClose?.().  The button
\* is rendered only while isVisible.
ClickClose ==
    /\ to_mounted = TRUE
    /\ isVisible
    /\ onCloseCalls < MaxCalls
    /\ isVisible' = FALSE
    /\ to_clicked' = TRUE
    /\ onCloseCalls' = CallOnClose(to_props, onCloseCalls)
    /\ UNCHANGED <<to_mounted, to_props, to_timer, to_effects>>
    /\ UNCHANGED <<exVars, agVars, srvVars, homeVars, clVars, rtVars, sgVars, dpVars, lkVars>>

\* The parent renders the Toast again with another duration or another
\* onClose function: the effect's cleanup clears the timeout and the effect
\* sets a new one
RenderWithNewProps ==
    /\ to_mounted = TRUE
    /\ to_effects < MaxEffects
    /\ \E d \in 1..MaxDuration :
          /\ to_props' = [to_props EXCEPT !.duration = d]
          /\ to_timer' = [armed |-> TRUE, left |-> d]
    /\ to_effects' = to_effects + 1
    /\ UNCHANGED <<to_mounted, isVisible, to_clicked, onCloseCalls>>
    /\ UNCHANGED <<exVars, agVars, srvVars, homeVars, clVars, rtVars, sgVars, dpVars, lkVars>>

\* The parent removes the Toast: the effect's cleanup clears the timeout
Unmount ==
    /\ to_mounted = TRUE
    /\ to_mounted' = FALSE
    /\ to_timer' = [armed |-> FALSE, left |-> 0]
    /\ UNCHANGED <<to_props, isVisible, to_effects, to_clicked, onCloseCalls>>
    /\ UNCHANGED <<exVars, agVars, srvVars, homeVars, clVars, rtVars, sgVars, dpVars, lkVars>>

ToastNext == Tick \/ TimerFires \/ ClickClose \/ RenderWithNewProps \/ Unmount

ToastSpec == ToastInit /\ [][ToastNext]_vars

\* C29: for one mounted Toast whose effect has run once, onClose is invoked
\* at most once however the click on the close button and the timeout are
\* ordered; after a click the pending timeout does not invoke it again.
C29_OnCloseAtMostOnce ==
    to_effects = 1 => onCloseCalls <= 1

=============================================================================
